---------------------------- MODULE Spec2Model ----------------------------
(***************************************************************************)
(* The credit / moderation gate of the LMX backend (src/unnamed/part_000,  *)
(* lines 122-980): the handlers /lmx1/generate, /lmx1/edit, /lmx1/upscale, *)
(* the account helpers getOrCreateAccount, consumeCredit, banAccount, the  *)
(* moderation adapter moderatePrompt, the lexical guard looksObviouslyBad  *)
(* and the in-memory IP ban set BANNED_IPS.                                *)
(*                                                                         *)
(* Every handler is an async function: it runs synchronously up to each    *)
(* `await` of a remote call (account store, moderation, image generation), *)
(* and other requests run in between.  One action of the model is one such *)
(* synchronous stretch of one request, beginning with the remote call's    *)
(* answer.                                                                 *)
(*                                                                         *)
(* A text is modelled as the sequence of its space-separated words; the    *)
(* substring test of looksObviouslyBad is the contiguous-subsequence test  *)
(* on words.                                                               *)
(***************************************************************************)
EXTENDS Integers, Sequences, FiniteSets, TLC

\* ---------------------------------------------------------------- bounds
MaxRequests == 2    \* requests started one after the other in a behaviour
MaxCap == 2         \* largest daily_cap / daily_used of an initial row
MaxTokens == 1      \* tokens_balance of an initial row
MaxCredits == 1     \* largest credits value a remix request sends
MaxSide == 16       \* largest W and H of a ratio "W:H"

Slots == {1, 2}     \* two requests can be in flight at the same time
Days == {1, 2}      \* the UTC days of a behaviour; day 0 is the day before
Null == -1          \* JavaScript null / undefined where a number is expected

Min(a, b) == IF a < b THEN a ELSE b
Max(a, b) == IF a > b THEN a ELSE b

\* ------------------------------------------------------------ input sets
UserIds == {"", "u1"}            \* "" : no user identity supplied
Ips == {"", "10.0.0.1"}          \* "" : getRequestIp found no address
Endpoints == {"generate", "edit", "upscale"}
Prompts == {<<>>, <<"red">>, <<"Child">>, <<"CSAM">>}     \* prompt, originalPrompt
Changes == {<<>>, <<"sexual">>}                           \* describeChange

VARIABLES
    width,        \* number of slots in use: 1, requests one after the other;
                  \*   2, requests overlap
    supabase,     \* TRUE iff the Supabase client was created (line 169)
    store,        \* table lmx_accounts: user_id -> row, or NoRow
    BANNED_IPS,   \* the in-memory set of line 264
    today,        \* the current UTC date, as a day number
    req,          \* slot -> the request being handled in it
    started,      \* number of requests started so far
    okCalls,      \* history: consumeCredit calls that returned ok: true
    clean,        \* history: u1 began this day at daily_used 0 under a cap,
                  \*          no day change and no ban since
    call          \* the helper function or the gate-less handler being run,
                  \*   with its input and its result (HelperSpec); NoCall
                  \*   while the gate of part_000 runs (Spec)

gateVars == <<width, supabase, store, BANNED_IPS, today, req, started, okCalls, clean>>
vars == <<width, supabase, store, BANNED_IPS, today, req, started, okCalls, clean, call>>

\* ----------------------------------------------------------- account rows
Row(uid, plan, cap, used, tokens, date) ==
    [user_id |-> uid, plan_label |-> plan, daily_cap |-> cap,
     daily_used |-> used, tokens_balance |-> tokens, last_reset_date |-> date]

\* no row in the table / `null` account in a handler
NoRow == Row("", "", 0, 0, 0, 0)

InitialRows ==
    {NoRow} \cup
    {Row("u1", p, c, u, MaxTokens, d) :
        p \in {"Free", "Banned"}, c \in 0..MaxCap, u \in 0..MaxCap, d \in {0, 1}}

\* the rows overlapping requests are explored from: no row, and a row of
\* today with one credit left under each cap
OverlapRows ==
    {NoRow} \cup {Row("u1", "Free", c, Max(c - 1, 0), MaxTokens, 1) : c \in 0..MaxCap}

\* ------------------------------------------------------------- responses
Resp(status, error, reason, banned, blocked, remaining, cap, used) ==
    [status |-> status, error |-> error, reason |-> reason, banned |-> banned,
     blocked |-> blocked, creditsRemaining |-> remaining,
     dailyCap |-> cap, dailyUsed |-> used]

NoResp == Resp(0, "", "", FALSE, FALSE, Null, Null, Null)

BannedResp(reason) == Resp(403, "", reason, TRUE, FALSE, Null, Null, Null)
ErrorResp(status, error) == Resp(status, error, "", FALSE, FALSE, Null, Null, Null)
BlockedResp(decision) == Resp(200, "", decision, FALSE, TRUE, Null, Null, Null)
QuotaResp(cap, used) == Resp(402, "quota", "", FALSE, FALSE, 0, cap, used)
ImageResp(remaining) == Resp(200, "", "", FALSE, FALSE, remaining, Null, Null)

\* ------------------------------------------------------- lexical filter
ToLowerCase(w) ==
    CASE w = "Child" -> "child"
      [] w = "CSAM" -> "csam"
      [] w = "Recreate" -> "recreate"
      [] w = "Remove" -> "remove"
      [] OTHER -> w

LowerText(text) == [i \in DOMAIN text |-> ToLowerCase(text[i])]

Includes(text, part) ==
    \E i \in 0..(Len(text) - Len(part)) : SubSeq(text, i + 1, i + Len(part)) = part

DenyList ==
    {<<"csam">>, <<"child", "sexual">>, <<"child", "abuse">>,
     <<"exploitative", "minor">>, <<"revenge", "porn">>}

looksObviouslyBad(text) ==
    IF text = <<>> THEN FALSE
    ELSE \E w \in DenyList : Includes(LowerText(text), w)

\* the text each endpoint checks and moderates
GateText(endpoint, prompt, originalPrompt, describeChange) ==
    CASE endpoint = "generate" -> prompt
      [] endpoint = "edit" -> originalPrompt \o describeChange
      [] endpoint = "upscale" -> <<"Upscale", "request", "on:">> \o originalPrompt

\* the required text is missing
MissingText(endpoint, prompt, originalPrompt, describeChange) ==
    CASE endpoint = "generate" -> prompt = <<>>
      [] endpoint = "edit" -> originalPrompt = <<>> /\ describeChange = <<>>
      [] endpoint = "upscale" -> originalPrompt = <<>>

\* ------------------------------------------------------------ moderation
\* what client.moderations.create can do: throw (network error, timeout),
\* answer without a results entry, or answer with one
ModerationAnswers ==
    {[fault |-> "throws", minors |-> FALSE, sexual |-> FALSE, flagged |-> FALSE],
     [fault |-> "no_results", minors |-> FALSE, sexual |-> FALSE, flagged |-> FALSE]}
    \cup
    {[fault |-> "none", minors |-> m, sexual |-> s, flagged |-> f] :
        m \in BOOLEAN, s \in BOOLEAN, f \in BOOLEAN}

\* moderatePrompt with the tests of lines 251 and 252 in the other order
moderatePromptSexualFirst(answer) ==
    IF answer.fault = "throws" THEN "block_policy"
    ELSE IF answer.fault = "no_results" THEN "safe"
    ELSE IF answer.sexual THEN "block_nsfw"
    ELSE IF answer.minors THEN "block_minor"
    ELSE IF answer.flagged THEN "block_policy"
    ELSE "safe"

moderatePrompt(answer) ==
    IF answer.fault = "throws" THEN "block_policy"
    ELSE IF answer.fault = "no_results" THEN "safe"
    ELSE IF answer.minors THEN "block_minor"
    ELSE IF answer.sexual THEN "block_nsfw"
    ELSE IF answer.flagged THEN "block_policy"
    ELSE "safe"

\* no helper call in progress
NoCall == [fn |-> "none", pc |-> "none"]

\* ------------------------------------------------------------- requests
\* a free slot; also the handler's locals before the first statement
Idle ==
    [pc |-> "idle", ip |-> "", userId |-> "",
     account |-> NoRow,            \* `account` of the handler (NoRow: null)
     today |-> 0,                  \* `today` of getOrCreateAccount (line 292)
     decision |-> "",              \* moderation.decision
     branch |-> "",                \* "minor": lines 525-543, "safe": 555-581
     creditResult |-> "none",      \* what consumeCredit returned
     creditsRemaining |-> Null,
     resp |-> NoResp,
     \* history of this request
     ipListed |-> FALSE,           \* ip was in BANNED_IPS on arrival
     wasBanned |-> FALSE,          \* the user's row had plan Banned on arrival
     missingText |-> FALSE,        \* the required text is missing
     lexBad |-> FALSE,             \* the text matches the deny-list
     storeCalls |-> 0,             \* account-store calls issued
     storeErrors |-> 0,            \* account-store calls answered by an error
     modCalls |-> 0,               \* moderation calls issued
     genCalls |-> 0,               \* image-generation calls issued
     consumeCalls |-> 0,           \* consumeCredit calls
     creditWrites |-> 0,           \* daily_used updates that the store applied
     modFault |-> ""]              \* how the moderation call failed, if it did

Respond(rq, resp) == [rq EXCEPT !.pc = "done", !.resp = resp]

MissingError(endpoint) ==
    CASE endpoint = "generate" -> "Missing prompt"
      [] endpoint = "edit" -> "Missing edit description."
      [] endpoint = "upscale" -> "Missing original prompt for upscale."

\* the first check of every handler (lines 478, 645, 817)
IpIsBanned(ip, banned) == ip # "" /\ ip \in banned

\* lines 514, 685, 854
AccountIsBanned(account) == account # NoRow /\ account.plan_label = "Banned"

\* AfterLookup without the test of line 514
AfterLookupNoBanCheck(rq, account) ==
    [rq EXCEPT !.account = account, !.pc = "moderate", !.modCalls = @ + 1]

\* lines 512-524: what the handler does with the account getOrCreateAccount
\* returned: reject a banned one, else call the moderation
AfterLookup(rq, account) ==
    IF AccountIsBanned(account)
    THEN Respond([rq EXCEPT !.account = account], BannedResp("account_banned"))
    ELSE [rq EXCEPT !.account = account, !.pc = "moderate", !.modCalls = @ + 1]

\* IpsAfterLookup without the test of line 514
IpsAfterLookupAnyAccount(rq, account) ==
    IF account # NoRow THEN BANNED_IPS \cup {rq.ip} ELSE BANNED_IPS

\* IpsAfterLookup without the add of line 515
IpsAfterLookupNoAdd(rq, account) == BANNED_IPS

\* line 515: the banned-account branch adds the ip, whatever it is
IpsAfterLookup(rq, account) ==
    IF AccountIsBanned(account) THEN BANNED_IPS \cup {rq.ip} ELSE BANNED_IPS

\* line 531: if (ip) BANNED_IPS.add(ip)
IpsAfterBan(rq) == IF rq.ip # "" THEN BANNED_IPS \cup {rq.ip} ELSE BANNED_IPS

\* lines 578-580
CreditsRemaining(account) ==
    IF account.daily_cap # 0
    THEN Max(account.daily_cap - account.daily_used, 0)
    ELSE Null

\* ConsumeCheck without the quota test of lines 349-358
ConsumeCheckNoQuota(account) ==
    IF ~supabase \/ account = NoRow THEN "ok"
    ELSE IF account.plan_label = "Banned" THEN "banned"
    ELSE "update"

\* ConsumeCheck with > for the >= of line 350
ConsumeCheckOffByOne(account) ==
    IF ~supabase \/ account = NoRow THEN "ok"
    ELSE IF account.plan_label = "Banned" THEN "banned"
    ELSE IF account.daily_cap > 0 /\ account.daily_used > account.daily_cap
    THEN "quota"
    ELSE "update"

\* ConsumeCheck without the daily_cap > 0 test of line 349
ConsumeCheckCapZeroEnforced(account) ==
    IF ~supabase \/ account = NoRow THEN "ok"
    ELSE IF account.plan_label = "Banned" THEN "banned"
    ELSE IF account.daily_used >= account.daily_cap THEN "quota"
    ELSE "update"

\* consumeCredit testing the persisted row instead of the snapshot
ConsumeCheckOnPersistedRow(account) ==
    LET row == IF account = NoRow THEN NoRow ELSE store[account.user_id] IN
    IF ~supabase \/ account = NoRow THEN "ok"
    ELSE IF row.plan_label = "Banned" THEN "banned"
    ELSE IF account.daily_cap > 0 /\ account.daily_used >= account.daily_cap
    THEN "quota"
    ELSE "update"

\* lines 342-358: consumeCredit up to its store call.  "ok": returns ok
\* without a store call; "update": goes on to the update of line 362
ConsumeCheck(account) ==
    IF ~supabase \/ account = NoRow THEN "ok"
    ELSE IF account.plan_label = "Banned" THEN "banned"
    ELSE IF account.daily_cap > 0 /\ account.daily_used >= account.daily_cap
    THEN "quota"
    ELSE "update"

\* AfterConsume computing creditsRemaining on the handler's own account
AfterConsumeOnSnapshot(rq, result, resultAccount) ==
    LET got == [rq EXCEPT !.creditResult = result] IN
    IF rq.branch = "minor" THEN Respond(got, BannedResp("predator"))
    ELSE IF result = "banned" THEN Respond(got, BannedResp("account_banned"))
    ELSE IF result = "quota"
    THEN Respond(got, QuotaResp(rq.account.daily_cap, rq.account.daily_used))
    ELSE [got EXCEPT !.creditsRemaining = CreditsRemaining(rq.account),
                     !.pc = "generate", !.genCalls = @ + 1]

\* what the handler does with the result of consumeCredit: lines 536-542 in
\* the block_minor branch (the result is ignored), lines 559-581 otherwise
AfterConsume(rq, result, resultAccount) ==
    LET got == [rq EXCEPT !.creditResult = result] IN
    IF rq.branch = "minor" THEN Respond(got, BannedResp("predator"))
    ELSE IF result = "banned" THEN Respond(got, BannedResp("account_banned"))
    ELSE IF result = "quota"
    THEN Respond(got, QuotaResp(rq.account.daily_cap, rq.account.daily_used))
    ELSE [got EXCEPT !.creditsRemaining = CreditsRemaining(resultAccount),
                     !.pc = "generate", !.genCalls = @ + 1]

\* the call consumeCredit(account), up to its await or its early return
CallConsume(rq) ==
    LET called == [rq EXCEPT !.consumeCalls = @ + 1]
        check == ConsumeCheck(rq.account) IN
    IF check = "update"
    THEN [called EXCEPT !.pc = "consume", !.storeCalls = @ + 1]
    ELSE AfterConsume(called, check, rq.account)

\* AfterBan with a failed store call going to the handler's catch
AfterBanErrorEscalates(rq) ==
    IF rq.storeErrors > 0 THEN Respond(rq, ErrorResp(500, "server_error"))
    ELSE IF rq.account # NoRow THEN CallConsume(rq)
    ELSE Respond(rq, BannedResp("predator"))

\* lines 531-542: the block_minor branch after banAccount
AfterBan(rq) ==
    IF rq.account # NoRow THEN CallConsume(rq)
    ELSE Respond(rq, BannedResp("predator"))

\* lines 380-384: banAccount reaches its store call
BanReachesStore(rq) ==
    LET id == IF rq.userId # "" THEN rq.userId ELSE rq.account.user_id IN
    (rq.account # NoRow \/ rq.userId # "") /\ supabase /\ id # ""

\* history: consumeCredit calls that returned ok
CountOk(r) ==
    okCalls' = IF req'[r].creditResult = "ok" /\ req[r].creditResult # "ok"
               THEN Min(okCalls + 1, MaxRequests)
               ELSE okCalls

StoreOutcomes == {"ok", "error"}

\* -------------------------------------------------------------- actions
Init ==
    /\ width \in {1, 2}
    /\ supabase \in BOOLEAN
    /\ store \in [{"u1"} -> InitialRows]
    /\ supabase = FALSE => store["u1"] = NoRow /\ width = 1
    /\ width = 2 => store["u1"] \in OverlapRows
    /\ BANNED_IPS = {}
    /\ today = 1
    /\ req = [r \in Slots |-> Idle]
    /\ started = 0
    /\ okCalls = 0
    /\ clean = LET row == store["u1"] IN
               /\ row # NoRow /\ row.plan_label # "Banned"
               /\ row.daily_cap > 0 /\ row.daily_used = 0
               /\ row.last_reset_date = today
    /\ call = NoCall

\* FirstStretch without the missing-text test of line 498
FirstStretchNoMissingCheck(rq, missingError) ==
    IF IpIsBanned(rq.ip, BANNED_IPS)
    THEN Respond(rq, BannedResp("ip_banned"))
    ELSE IF rq.lexBad
    THEN Respond(rq, ErrorResp(400, "unsafe_content"))
    ELSE IF ~supabase \/ rq.userId = ""
    THEN AfterLookup(rq, NoRow)
    ELSE [rq EXCEPT !.pc = "select", !.storeCalls = @ + 1]

\* FirstStretch without the looksObviouslyBad test of line 503
FirstStretchNoFilter(rq, missingError) ==
    IF IpIsBanned(rq.ip, BANNED_IPS)
    THEN Respond(rq, BannedResp("ip_banned"))
    ELSE IF rq.missingText
    THEN Respond(rq, ErrorResp(400, missingError))
    ELSE IF ~supabase \/ rq.userId = ""
    THEN AfterLookup(rq, NoRow)
    ELSE [rq EXCEPT !.pc = "select", !.storeCalls = @ + 1]

\* the handler from its first statement to its first await; rq holds the
\* request as it arrived (generate: lines 475-512 and 278-284; edit: 642-683;
\* upscale: 814-852)
FirstStretch(rq, missingError) ==
    IF IpIsBanned(rq.ip, BANNED_IPS)
    THEN Respond(rq, BannedResp("ip_banned"))
    ELSE IF rq.missingText
    THEN Respond(rq, ErrorResp(400, missingError))
    ELSE IF rq.lexBad
    THEN Respond(rq, ErrorResp(400, "unsafe_content"))
    ELSE IF ~supabase \/ rq.userId = ""
    THEN AfterLookup(rq, NoRow)
    ELSE [rq EXCEPT !.pc = "select", !.storeCalls = @ + 1]

\* A request arrives at one of the three endpoints
Begin(r) ==
    /\ req[r].pc \in {"idle", "done"}
    /\ r <= width
    /\ width = 2 => req[r].pc = "idle"      \* overlapping: one request a slot
    /\ started < MaxRequests
    /\ \E endpoint \in Endpoints, ip \in Ips, userId \in UserIds,
          first \in Prompts, second \in Changes :
        /\ endpoint # "edit" => second = <<>>
        /\ width = 2 => userId # "" /\ ip # ""
        /\ LET prompt == IF endpoint = "generate" THEN first ELSE <<>>
               originalPrompt == IF endpoint = "generate" THEN <<>> ELSE first
               describeChange == second
               text == GateText(endpoint, prompt, originalPrompt, describeChange)
               rq == [Idle EXCEPT
                   !.ip = ip, !.userId = userId,
                   !.ipListed = ip \in BANNED_IPS,
                   !.wasBanned = userId # "" /\ AccountIsBanned(store[userId]),
                   !.missingText = MissingText(endpoint, prompt, originalPrompt,
                                               describeChange),
                   !.lexBad = looksObviouslyBad(text)]
           IN req' = [req EXCEPT ![r] = FirstStretch(rq, MissingError(endpoint))]
    /\ started' = started + 1
    /\ UNCHANGED <<width, supabase, store, BANNED_IPS, today, okCalls, clean, call>>

\* NeedsReset with the test of line 319 always false
NeedsResetNever(account, day) == FALSE

\* NeedsReset with the test of line 319 always true
NeedsResetAlways(account, day) == TRUE

\* line 319: the row found was last reset on another day
NeedsReset(account, day) == account.last_reset_date # day

\* getOrCreateAccount, the select answers (lines 280-319)
Select(r) ==
    /\ req[r].pc = "select"
    /\ \E outcome \in StoreOutcomes :
        LET rq == [req[r] EXCEPT !.today = today]
            row == store[rq.userId]
            next == IF outcome = "error"
                    THEN AfterLookup([req[r] EXCEPT !.storeErrors = @ + 1], NoRow)
                    ELSE IF row = NoRow
                    THEN [rq EXCEPT !.pc = "insert", !.storeCalls = @ + 1]
                    ELSE IF NeedsReset(row, today)
                    THEN [rq EXCEPT !.account = row, !.pc = "reset",
                                    !.storeCalls = @ + 1]
                    ELSE AfterLookup(rq, row)
        IN
        /\ req' = [req EXCEPT ![r] = next]
        /\ BANNED_IPS' = IF next.pc = "done"
                         THEN IpsAfterLookup(rq, next.account) ELSE BANNED_IPS
    /\ UNCHANGED <<width, supabase, store, today, started, okCalls, clean, call>>

\* getOrCreateAccount, the insert answers (lines 305-319); user_id is the
\* table's unique key, so the insert of an existing user_id is an error
Insert(r) ==
    /\ req[r].pc = "insert"
    /\ \E outcome \in StoreOutcomes :
        LET rq == req[r]
            created == Row(rq.userId, "Guest", 0, 0, 0, rq.today) IN
        /\ outcome = "ok" => store[rq.userId] = NoRow
        /\ store' = IF outcome = "ok"
                    THEN [store EXCEPT ![rq.userId] = created] ELSE store
        /\ req' = [req EXCEPT ![r] =
               IF outcome = "ok" THEN AfterLookup(rq, created)
               ELSE AfterLookup([rq EXCEPT !.storeErrors = @ + 1], NoRow)]
    /\ UNCHANGED <<width, supabase, BANNED_IPS, today, started, okCalls, clean, call>>

\* getOrCreateAccount, the daily reset's update answers (lines 320-337)
Reset(r) ==
    /\ req[r].pc = "reset"
    /\ \E outcome \in StoreOutcomes :
        LET rq == [req[r] EXCEPT !.storeErrors =
                                     IF outcome = "error" THEN @ + 1 ELSE @]
            account == [rq.account EXCEPT !.daily_used = 0,
                                          !.last_reset_date = rq.today]
        IN
        /\ store' = IF outcome = "ok" /\ store[rq.userId] # NoRow
                    THEN [store EXCEPT ![rq.userId].daily_used = 0,
                                       ![rq.userId].last_reset_date = rq.today]
                    ELSE store
        /\ req' = [req EXCEPT ![r] = AfterLookup(rq, account)]
        /\ BANNED_IPS' = IpsAfterLookup(rq, account)
    /\ UNCHANGED <<width, supabase, today, started, okCalls, clean, call>>

\* AfterModeration going to the image call without consumeCredit
AfterModerationSkipsConsume(rq) ==
    IF rq.decision = "block_minor"
    THEN LET minor == [rq EXCEPT !.branch = "minor"] IN
         IF BanReachesStore(minor)
         THEN [minor EXCEPT !.pc = "ban", !.storeCalls = @ + 1]
         ELSE AfterBan(minor)
    ELSE IF rq.decision \in {"block_nsfw", "block_policy"}
    THEN Respond(rq, BlockedResp(rq.decision))
    ELSE [rq EXCEPT !.branch = "safe", !.pc = "generate", !.genCalls = @ + 1]

\* AfterModeration without the test of line 557
AfterModerationAlwaysConsumes(rq) ==
    IF rq.decision = "block_minor"
    THEN LET minor == [rq EXCEPT !.branch = "minor"] IN
         IF BanReachesStore(minor)
         THEN [minor EXCEPT !.pc = "ban", !.storeCalls = @ + 1]
         ELSE AfterBan(minor)
    ELSE IF rq.decision \in {"block_nsfw", "block_policy"}
    THEN Respond(rq, BlockedResp(rq.decision))
    ELSE CallConsume([rq EXCEPT !.branch = "safe"])

\* AfterModeration with block_policy left out of the test of line 545
AfterModerationPolicyPasses(rq) ==
    IF rq.decision = "block_minor"
    THEN LET minor == [rq EXCEPT !.branch = "minor"] IN
         IF BanReachesStore(minor)
         THEN [minor EXCEPT !.pc = "ban", !.storeCalls = @ + 1]
         ELSE AfterBan(minor)
    ELSE IF rq.decision = "block_nsfw"
    THEN Respond(rq, BlockedResp(rq.decision))
    ELSE LET safe == [rq EXCEPT !.branch = "safe"] IN
         IF rq.account # NoRow THEN CallConsume(safe)
         ELSE [safe EXCEPT !.pc = "generate", !.genCalls = @ + 1]

\* lines 525-581: what the handler does with moderation.decision, up to
\* its next await
AfterModeration(rq) ==
    IF rq.decision = "block_minor"
    THEN LET minor == [rq EXCEPT !.branch = "minor"] IN
         IF BanReachesStore(minor)
         THEN [minor EXCEPT !.pc = "ban", !.storeCalls = @ + 1]
         ELSE AfterBan(minor)
    ELSE IF rq.decision \in {"block_nsfw", "block_policy"}
    THEN Respond(rq, BlockedResp(rq.decision))
    ELSE LET safe == [rq EXCEPT !.branch = "safe"] IN
         IF rq.account # NoRow THEN CallConsume(safe)
         ELSE [safe EXCEPT !.pc = "generate", !.genCalls = @ + 1]

\* the moderation answers (lines 238-260), then the handler goes on
Moderate(r) ==
    /\ req[r].pc = "moderate"
    /\ \E answer \in ModerationAnswers :
        LET rq == [req[r] EXCEPT !.decision = moderatePrompt(answer),
                                 !.modFault = answer.fault]
        IN
        /\ req' = [req EXCEPT ![r] = AfterModeration(rq)]
        /\ BANNED_IPS' = IF rq.decision = "block_minor" /\ ~BanReachesStore(rq)
                         THEN IpsAfterBan(rq) ELSE BANNED_IPS
    /\ CountOk(r)
    /\ UNCHANGED <<width, supabase, store, today, started, clean, call>>

\* BanPayload without tokens_balance: 0
BanPayloadKeepsTokens(row) ==
    [row EXCEPT !.plan_label = "Banned", !.daily_cap = 0, !.daily_used = 0]

\* lines 387-398: the row after banAccount's update
BanPayload(row) ==
    [row EXCEPT !.plan_label = "Banned", !.daily_cap = 0, !.daily_used = 0,
                !.tokens_balance = 0]

\* banAccount's update answers (lines 386-401), then lines 531-542
Ban(r) ==
    /\ req[r].pc = "ban"
    /\ \E outcome \in StoreOutcomes :
        LET rq == [req[r] EXCEPT !.storeErrors =
                                     IF outcome = "error" THEN @ + 1 ELSE @]
            id == IF rq.userId # "" THEN rq.userId ELSE rq.account.user_id
            applied == outcome = "ok" /\ store[id] # NoRow
        IN
        /\ store' = IF applied
                    THEN [store EXCEPT ![id] = BanPayload(store[id])]
                    ELSE store
        /\ clean' = (clean /\ ~applied)
        /\ req' = [req EXCEPT ![r] = AfterBan(rq)]
        /\ BANNED_IPS' = IpsAfterBan(rq)
    /\ CountOk(r)
    /\ UNCHANGED <<width, supabase, today, started, call>>

\* UpdateReturns failing closed on an update error
UpdateReturnsFailClosed(outcome) == IF outcome = "error" THEN "quota" ELSE "ok"

\* lines 372-377: consumeCredit returns ok: true whatever the update answers
UpdateReturns(outcome) == "ok"

\* consumeCredit's update answers (lines 360-377), then the handler up to
\* the image call
ConsumeWrite(r) ==
    /\ req[r].pc = "consume"
    /\ \E outcome \in StoreOutcomes :
        LET rq == [req[r] EXCEPT !.storeErrors =
                                     IF outcome = "error" THEN @ + 1 ELSE @]
            id == rq.account.user_id
            newUsed == rq.account.daily_used + 1
            applied == outcome = "ok" /\ store[id] # NoRow
            updated == [store[id] EXCEPT !.daily_used = newUsed]
        IN
        /\ store' = IF applied THEN [store EXCEPT ![id] = updated] ELSE store
        /\ req' = [req EXCEPT ![r] =
               AfterConsume([rq EXCEPT !.creditWrites =
                                 IF applied THEN @ + 1 ELSE @],
                            UpdateReturns(outcome),
                            IF applied THEN updated ELSE rq.account)]
    /\ CountOk(r)
    /\ UNCHANGED <<width, supabase, BANNED_IPS, today, started, clean, call>>

GenerationOutcomes == {"image", "no_data", "throws"}
ThrownStatuses == {429, 500}

\* client.images.generate answers (lines 603-634)
Generate(r) ==
    /\ req[r].pc = "generate"
    /\ \E outcome \in GenerationOutcomes, status \in ThrownStatuses :
        /\ outcome # "throws" => status = 500
        /\ req' = [req EXCEPT ![r] = Respond(req[r],
               CASE outcome = "image" -> ImageResp(req[r].creditsRemaining)
                 [] outcome = "no_data" -> ErrorResp(500, "no_image_data")
                 [] outcome = "throws" -> ErrorResp(status, "server_error"))]
    /\ UNCHANGED <<width, supabase, store, BANNED_IPS, today, started, okCalls,
                   clean, call>>

\* midnight UTC passes
DayChange ==
    /\ today + 1 \in Days
    /\ today' = today + 1
    /\ clean' = FALSE
    /\ UNCHANGED <<width, supabase, store, BANNED_IPS, req, started, okCalls, call>>

Next ==
    \/ \E r \in Slots : Begin(r)
    \/ \E r \in Slots : Select(r)
    \/ \E r \in Slots : Insert(r)
    \/ \E r \in Slots : Reset(r)
    \/ \E r \in Slots : Moderate(r)
    \/ \E r \in Slots : Ban(r)
    \/ \E r \in Slots : ConsumeWrite(r)
    \/ \E r \in Slots : Generate(r)
    \/ DayChange

Spec == Init /\ [][Next]_vars

\* ------------------------------------------- helper functions, one by one
\* The helpers of the servers and the handlers that run without the gate
\* of part_000, each applied to an input drawn from its input set.
HelperInit ==
    /\ width = 1
    /\ supabase = FALSE
    /\ store = [u \in {"u1"} |-> NoRow]
    /\ BANNED_IPS = {}
    /\ today = 1
    /\ req = [r \in Slots |-> Idle]
    /\ started = 0
    /\ okCalls = 0
    /\ clean = FALSE
    /\ call = NoCall

\* no call is running: the next one can be made
Free == call = NoCall

\* the result went back to the caller, or the response to the client
Return ==
    /\ call.pc = "done"
    /\ call' = NoCall
    /\ UNCHANGED gateVars

\* moderatePrompt on each answer of the moderation endpoint (lines 238-260)
CallModeratePrompt ==
    /\ Free
    /\ \E answer \in ModerationAnswers :
        call' = [fn |-> "moderatePrompt", pc |-> "done", input |-> answer,
                 out |-> moderatePrompt(answer)]
    /\ UNCHANGED gateVars

\* ---- the image call and its deadline
\* the handlers whose image call is modelled: /api/generate of part_000
\* (lines 34-68), /api/generate of part_005 (lines 47-98), and the image
\* call of /lmx1/generate (lines 602-634)
GenerateHandlers == {"part_000", "part_002", "part_005", "lmx1"}

\* setTimeout(() => controller.abort(), 25000): part_000 line 46, part_005
\* line 63; /lmx1/generate passes no signal
HasDeadline(handler) == handler \in {"part_000", "part_005"}

\* the answer of the handler's catch
CatchError(handler) ==
    IF handler = "lmx1" THEN "server_error" ELSE "Image generator unavailable."

\* the answer to a response without b64_json
NoDataError(handler) ==
    IF handler = "lmx1" THEN "no_image_data" ELSE "No image returned."

\* the handlers whose inner catch calls the image API again: part_002
\* lines 70-81, part_005 lines 77-88
Retries(handler) == handler \in {"part_002", "part_005"}

\* the first image call rejects (an error, or the abort of the deadline):
\* part_002 and part_005 catch it and call again with no signal, the
\* others answer 500 from their catch
FirstCallFails(c) ==
    LET failed == [c EXCEPT !.failedCalls = @ + 1] IN
    IF Retries(c.handler)
    THEN [failed EXCEPT !.pc = "retry", !.genCalls = @ + 1]
    ELSE [failed EXCEPT !.pc = "done", !.status = 500,
                        !.error = CatchError(c.handler)]

\* SecondCallFails calling the image API a third time
SecondCallFailsRetries(c) ==
    IF c.genCalls < 3
    THEN [c EXCEPT !.failedCalls = @ + 1, !.genCalls = @ + 1]
    ELSE [c EXCEPT !.failedCalls = @ + 1, !.pc = "done", !.status = 500,
                   !.error = CatchError(c.handler)]

\* the second image call rejects: the outer catch answers 500 (part_002
\* lines 87-90, part_005 lines 95-98)
SecondCallFails(c) ==
    [c EXCEPT !.failedCalls = @ + 1, !.pc = "done", !.status = 500,
              !.error = CatchError(c.handler)]

\* a request arrives; with a prompt the image call is issued and, in the
\* handlers that have one, the deadline's timer is started
CallGenerate ==
    /\ Free
    /\ \E handler \in GenerateHandlers, hasPrompt \in BOOLEAN :
        call' = [fn |-> "generate", handler |-> handler,
                 pc |-> IF hasPrompt THEN "first" ELSE "done",
                 timer |-> IF hasPrompt /\ HasDeadline(handler)
                           THEN "armed" ELSE "none",
                 fired |-> FALSE,
                 genCalls |-> IF hasPrompt THEN 1 ELSE 0,
                 failedCalls |-> 0,    \* image calls that rejected
                 status |-> IF hasPrompt THEN 0 ELSE 400,
                 error |-> IF hasPrompt THEN "" ELSE "Missing prompt"]
    /\ UNCHANGED gateVars

\* the image call in flight answers or rejects
GenerationAnswers ==
    /\ call.fn = "generate"
    /\ call.pc \in {"first", "retry"}
    /\ \E outcome \in GenerationOutcomes :
        LET cleared == IF call.pc = "first" /\ call.timer = "armed"
                       THEN [call EXCEPT !.timer = "cleared"] ELSE call
        IN
        call' = CASE outcome = "image" ->
                         [cleared EXCEPT !.pc = "done", !.status = 200]
                  [] outcome = "no_data" ->
                         [cleared EXCEPT !.pc = "done", !.status = 500,
                                         !.error = NoDataError(call.handler)]
                  [] outcome = "throws" ->
                         IF call.pc = "first" THEN FirstCallFails(call)
                         ELSE SecondCallFails(call)
    /\ UNCHANGED gateVars

\* the timer fires: controller.abort() rejects the first call if it is still
\* in flight, and does nothing otherwise
DeadlineFires ==
    /\ call.fn = "generate"
    /\ call.timer = "armed"
    /\ LET fired == [call EXCEPT !.timer = "fired"] IN
       call' = IF call.pc = "first"
               THEN FirstCallFails([fired EXCEPT !.fired = TRUE])
               ELSE fired
    /\ UNCHANGED gateVars

\* ---- ratio normalisation
\* A text is the sequence of its characters; a ratio value is what the JSON
\* body holds under "ratio": nothing, null, a number or a string.
DigitChars == <<"0", "1", "2", "3", "4", "5", "6", "7", "8", "9">>

RECURSIVE Decimal(_)
\* the decimal text of a natural number
Decimal(n) ==
    IF n < 10 THEN <<DigitChars[n + 1]>>
    ELSE Decimal(n \div 10) \o <<DigitChars[(n % 10) + 1]>>

Str(chars) == [type |-> "string", chars |-> chars]
NotAString == {[type |-> t, chars |-> <<>>] : t \in {"undefined", "null", "number"}}

\* ratio || "" : nothing, null and the empty string are falsy
Truthy(ratio) == ratio.type = "number" \/ (ratio.type = "string" /\ ratio.chars # <<>>)

RECURSIVE TrimStart(_)
TrimStart(s) == IF s # <<>> /\ Head(s) = " " THEN TrimStart(Tail(s)) ELSE s

RECURSIVE TrimEnd(_)
TrimEnd(s) == IF s # <<>> /\ s[Len(s)] = " " THEN TrimEnd(SubSeq(s, 1, Len(s) - 1)) ELSE s

\* String.prototype.trim
trim(s) == TrimEnd(TrimStart(s))

tallSet == {<<"4", ":", "5">>, <<"2", ":", "3">>, <<"9", ":", "1", "6">>}
wideSet == {<<"3", ":", "2">>, <<"1", "6", ":", "9">>}

\* mapRatioToSize without the trim
mapRatioToSizeNoTrim(ratio) ==
    LET r == IF Truthy(ratio) THEN ratio.chars ELSE <<>> IN
    IF r \in tallSet THEN "1024x1792"
    ELSE IF r \in wideSet THEN "1792x1024"
    ELSE "1024x1024"

\* mapRatioToSize (part_000 lines 211-219; final_server.js lines 279-293)
mapRatioToSize(ratio) ==
    LET r == trim(IF Truthy(ratio) THEN ratio.chars ELSE <<>>) IN
    IF r \in tallSet THEN "1024x1792"
    ELSE IF r \in wideSet THEN "1792x1024"
    ELSE "1024x1024"

RECURSIVE Split(_, _)
\* String.prototype.split with a one-character separator
Split(s, sep) ==
    IF \E i \in 1..Len(s) : s[i] = sep
    THEN LET i == CHOOSE k \in 1..Len(s) :
                      s[k] = sep /\ \A j \in 1..(k - 1) : s[j] # sep
         IN <<SubSeq(s, 1, i - 1)>> \o Split(SubSeq(s, i + 1, Len(s)), sep)
    ELSE <<s>>

IsDigit(c) == \E d \in 1..10 : DigitChars[d] = c
DigitValue(c) == (CHOOSE d \in 1..10 : DigitChars[d] = c) - 1

RECURSIVE TakeDigits(_)
\* the longest prefix of digits
TakeDigits(s) ==
    IF s # <<>> /\ IsDigit(Head(s)) THEN <<Head(s)>> \o TakeDigits(Tail(s)) ELSE <<>>

RECURSIVE DigitsValue(_)
DigitsValue(ds) ==
    IF ds = <<>> THEN 0
    ELSE 10 * DigitsValue(SubSeq(ds, 1, Len(ds) - 1)) + DigitValue(ds[Len(ds)])

RECURSIVE Pow10(_)
Pow10(k) == IF k = 0 THEN 1 ELSE 10 * Pow10(k - 1)

\* a number is num / den with den > 0; NaN and undefined are not numbers
NaN == [kind |-> "NaN", num |-> 0, den |-> 1]
Undefined == [kind |-> "undefined", num |-> 0, den |-> 1]

\* parseFloat on a text of digits, signs, dots, spaces and other characters
\* (no exponent, no "Infinity"): leading blanks, a sign, digits, a fraction;
\* whatever follows is ignored
parseFloat(s) ==
    LET t == TrimStart(s)
        signed == t # <<>> /\ Head(t) \in {"+", "-"}
        u == IF signed THEN Tail(t) ELSE t
        int == TakeDigits(u)
        rest == SubSeq(u, Len(int) + 1, Len(u))
        frac == IF rest # <<>> /\ Head(rest) = "." THEN TakeDigits(Tail(rest)) ELSE <<>>
        magnitude == DigitsValue(int) * Pow10(Len(frac)) + DigitsValue(frac)
    IN
    IF int = <<>> /\ frac = <<>> THEN NaN
    ELSE [kind |-> "number",
          num |-> IF signed /\ Head(t) = "-" THEN 0 - magnitude ELSE magnitude,
          den |-> Pow10(Len(frac))]

\* !x : NaN, undefined and zero are falsy
Falsy(x) == x.kind # "number" \/ x.num = 0

BASE == 1024
MaxDimension == 2048

\* Math.round(n / d) for d > 0: the nearest integer, a half goes up
Round(n, d) == (2 * n + d) \div (2 * d)

\* Math.round((a / b) * BASE) for numbers a and b # 0
Scaled(a, b) ==
    LET n == a.num * b.den * BASE
        d == b.num * a.den
    IN IF d > 0 THEN Round(n, d) ELSE Round(0 - n, 0 - d)

\* the template `${width}x${height}`
SizeText(w, h) == ToString(w) \o "x" \o ToString(h)

\* ratioToSize scaling the shorter side instead of the longer one
ratioToSizeLargerIsBase(ratio) ==
    IF ~Truthy(ratio) \/ ratio.type # "string" THEN "1024x1024"
    ELSE LET parts == Split(ratio.chars, ":")
             w == parseFloat(trim(parts[1]))
             h == IF Len(parts) >= 2 THEN parseFloat(trim(parts[2])) ELSE Undefined
         IN
         IF Falsy(w) \/ Falsy(h) THEN "1024x1024"
         ELSE IF w.num * h.den >= h.num * w.den
              THEN SizeText(Min(BASE, MaxDimension), Min(Scaled(h, w), MaxDimension))
              ELSE SizeText(Min(Scaled(w, h), MaxDimension), Min(BASE, MaxDimension))

\* ratioToSize (final_server.js lines 49-75)
ratioToSize(ratio) ==
    IF ~Truthy(ratio) \/ ratio.type # "string" THEN "1024x1024"
    ELSE LET parts == Split(ratio.chars, ":")
             w == parseFloat(trim(parts[1]))
             h == IF Len(parts) >= 2 THEN parseFloat(trim(parts[2])) ELSE Undefined
         IN
         IF Falsy(w) \/ Falsy(h) THEN "1024x1024"
         ELSE IF w.num * h.den >= h.num * w.den
              THEN SizeText(Min(Scaled(w, h), MaxDimension), Min(BASE, MaxDimension))
              ELSE SizeText(Min(BASE, MaxDimension), Min(Scaled(h, w), MaxDimension))

\* the ratio "W:H" of two integers, as a client writes it
Signed(n) == IF n < 0 THEN <<"-">> \o Decimal(0 - n) ELSE Decimal(n)
RatioOf(w, h) == Signed(w) \o <<":">> \o Signed(h)

\* texts that are not a plain "W:H"
OddRatios ==
    {<<>>, <<" ">>, <<"x">>, <<"1", "6">>, <<"1", "6", ":">>, <<":", "9">>,
     <<"x", ":", "y">>, <<"1", "6", ":", "9", ":", "4">>,
     <<" ", "1", "6", " ", ":", " ", "9", " ">>, <<"1", "6", ":", "9", " ">>,
     <<"1", ".", "5", ":", "1">>, <<"1", "6", "x", ":", "9">>,
     <<"+", "4", ":", "5">>, <<".", "5", ":", "1">>, <<"4", ":", "5", "x">>}

\* the ratio values the two functions are explored with
Ratios ==
    NotAString
    \cup {Str(t) : t \in OddRatios}
    \cup {Str(RatioOf(w, h)) : w \in (0 - MaxSide)..MaxSide, h \in (0 - MaxSide)..MaxSide}

\* mapRatioToSize is given a ratio
CallMapRatioToSize ==
    /\ Free
    /\ \E ratio \in {x \in Ratios : x.type # "number"} :
        call' = [fn |-> "mapRatioToSize", pc |-> "done", input |-> ratio,
                 out |-> mapRatioToSize(ratio)]
    /\ UNCHANGED gateVars

\* ratioToSize is given a ratio
CallRatioToSize ==
    /\ Free
    /\ \E ratio \in Ratios :
        call' = [fn |-> "ratioToSize", pc |-> "done", input |-> ratio,
                 out |-> ratioToSize(ratio)]
    /\ UNCHANGED gateVars

\* ---- prompt composition
\* A composed prompt is the sequence of its parts, each a clause with its
\* text; join(" ") puts one blank between two parts.
Part(clause, text) == [clause |-> clause, text |-> text]

\* a part that is the empty string
NoPart == Part("", "")

\* `<label> ${text}.` when the text is not empty, "" otherwise
Clause(clause, text) == IF text # "" THEN Part(clause, text) ELSE NoPart

RECURSIVE FilterBoolean(_)
\* Array.prototype.filter(Boolean) on a list of strings
FilterBoolean(parts) ==
    IF parts = <<>> THEN <<>>
    ELSE IF Head(parts) = NoPart THEN FilterBoolean(Tail(parts))
    ELSE <<Head(parts)>> \o FilterBoolean(Tail(parts))

\* STYLE_MAP (final_server.js lines 398-415)
STYLE_MAP ==
    [anime |-> "highly detailed anime illustration, cel-shaded, bold clean line art, expressive faces, vibrant colors, Japanese anime style",
     cinematic |-> "ultra realistic cinematic film still, dramatic lighting, volumetric light, shallow depth of field, 35mm lens, film-grade color grading",
     realistic |-> "photorealistic ultra detailed image, natural lighting, real-world textures, subtle imperfections, 8k resolution look",
     comic |-> "comic book illustration, bold black inks, halftone shading, dynamic poses, graphic novel panel style",
     watercolor |-> "soft watercolor painting, textured paper, flowing pigment edges, gentle gradients, hand-painted illustration",
     3d |-> "high-end 3D render, physically-based materials, realistic reflections and shadows, studio lighting, CG artwork",
     pixel |-> "retro pixel art, low resolution sprite style, limited color palette, 16-bit video game look",
     sketch |-> "hand-drawn pencil sketch, loose linework, visible graphite texture, minimal shading, concept art style"]

\* the styles, ratios and texts a prompt is composed from; they are trimmed
\* already, and a ratio that was not sent is "1:1"
StylesSent == {"", "Anime", "pixel", "noir"}
RatiosSent == {"1:1", "16:9", "7:3"}
TextsSent == {"", "red", "fox"}
ChipsSent == {<<>>, <<"hd">>, <<"hd", "warm">>}

\* toLowerCase on a style of StylesSent
StyleLower(style) == IF style = "Anime" THEN "anime" ELSE style

\* the style of a remix (final_server.js lines 955-964)
resolvedStyle(styleKeyRaw) ==
    LET styleKey == StyleLower(styleKeyRaw) IN
    IF styleKey # "" /\ styleKey \in DOMAIN STYLE_MAP THEN STYLE_MAP[styleKey]
    ELSE styleKeyRaw

\* chips.join(", ") of chipText (part_000 lines 752-754)
ChipText(chips) ==
    IF chips = <<>> THEN ""
    ELSE IF Len(chips) = 1 THEN chips[1]
    ELSE chips[1] \o ", " \o chips[2]

\* finalPrompt of /lmx1/generate (part_000 lines 585-592)
GeneratePrompt(style, ratio, prompt) ==
    FilterBoolean(<<Clause("Style:", style),
                    Part("frame", "LMX Synthetic Designer frame."),
                    Part("Ratio hint:", ratio),
                    Clause("prompt", prompt)>>)

\* finalPrompt of /lmx1/edit (part_000 lines 756-764)
EditPrompt(style, ratio, originalPrompt, describeChange, chips) ==
    FilterBoolean(<<Clause("Style:", style),
                    Part("frame", "LMX Synthetic Designer edit of an existing frame."),
                    Clause("Original description:", originalPrompt),
                    Clause("Change requested:", describeChange),
                    Clause("Quick options:", ChipText(chips))>>)

\* finalPrompt of /lmx1/upscale (part_000 lines 922-930)
UpscalePrompt(style, ratio, originalPrompt) ==
    FilterBoolean(<<Clause("Style:", style),
                    Part("frame", "LMX Synthetic Designer upscale of an existing frame."),
                    Part("Ratio hint:", ratio),
                    Part("instruction", "Make this look sharper, cleaner, higher fidelity, suitable for premium print or high-res usage."),
                    Clause("originalPrompt", originalPrompt)>>)

\* magicPrompt of /lmx1/remix (final_server.js lines 968-978)
RemixPrompt(style, ratio, basePrompt, remixPrompt) ==
    FilterBoolean(<<Part("frame", "LMX Synthetic Designer remix frame."),
                    IF basePrompt # ""
                    THEN Part("Original frame description:", basePrompt)
                    ELSE Part("original", "Original frame already exists in the user's library."),
                    Clause("Style:", resolvedStyle(style)),
                    Part("Ratio hint:", ratio),
                    Part("Transform the existing image according to this instruction:", remixPrompt)>>)

\* a handler composes its prompt; the texts it requires are there
CallCompose ==
    /\ Free
    /\ \E style \in StylesSent, ratio \in RatiosSent, first \in TextsSent,
          second \in TextsSent, chips \in ChipsSent :
        \/ /\ first # "" /\ second = "" /\ chips = <<>>
           /\ call' = [fn |-> "compose", pc |-> "done", endpoint |-> "generate",
                       style |-> style, ratio |-> ratio,
                       original |-> "", text |-> first,
                       out |-> GeneratePrompt(style, ratio, first)]
        \/ /\ first # "" \/ second # ""
           /\ call' = [fn |-> "compose", pc |-> "done", endpoint |-> "edit",
                       style |-> style, ratio |-> ratio,
                       original |-> first, text |-> second,
                       out |-> EditPrompt(style, ratio, first, second, chips)]
        \/ /\ first # "" /\ second = "" /\ chips = <<>>
           /\ call' = [fn |-> "compose", pc |-> "done", endpoint |-> "upscale",
                       style |-> style, ratio |-> ratio,
                       original |-> first, text |-> "",
                       out |-> UpscalePrompt(style, ratio, first)]
        \/ /\ second # "" /\ chips = <<>>
           /\ call' = [fn |-> "compose", pc |-> "done", endpoint |-> "remix",
                       style |-> style, ratio |-> ratio,
                       original |-> first, text |-> second,
                       out |-> RemixPrompt(style, ratio, first, second)]
    /\ UNCHANGED gateVars

\* ---- /lmx1/remix (LMX_AI_Generator_final_server.js, lines 867-1063)
\* the request's plan as sent: header x-lmx-plan, x-user-plan or the body
PlansSent == {"", "free", "creator", "Pro", "studio", "team"}

\* getUserContext, lines 428-439: lower case, "free" when nothing is sent
PlanOf(sent) ==
    CASE sent = "" -> "free"
      [] sent = "Pro" -> "pro"
      [] OTHER -> sent

allowedPlans == {"creator", "pro", "studio"}       \* line 873

\* the environment's ban lists (LMX_BANNED_USER_IDS, LMX_BANNED_IPS)
BanLists == {[users |-> us, ips |-> is] : us \in SUBSET {"u1"},
                                          is \in SUBSET {"10.0.0.1"}}

\* checkBan, lines 460-493; "" stands for no user id / no client ip
checkBan(userId, clientIp, lists) ==
    IF userId # "" /\ userId \in lists.users THEN "user_id_banned"
    ELSE IF clientIp # "" /\ clientIp \in lists.ips THEN "ip_banned"
    ELSE "not_banned"

\* the texts a credits header or a credits string of the body is explored
\* with: empty, blank, not numeric, and the decimal integers
CreditTexts ==
    {<<>>, <<" ">>, <<"a", "b", "c">>, <<"1", "x">>, <<" ", "1", " ">>}
    \cup {Signed(n) : n \in -1..MaxCredits}

\* the credits value of the request (headers x-lmx-credits, x-user-credits,
\* body credits, creditsRemaining): none sent (or null), a JSON number, a
\* JSON boolean, or a string
CreditsSent ==
    {[kind |-> "none", n |-> 0, chars |-> <<>>]}
    \cup {[kind |-> "number", n |-> n, chars |-> <<>>] : n \in -1..MaxCredits}
    \cup {[kind |-> "boolean", n |-> b, chars |-> <<>>] : b \in {0, 1}}
    \cup {[kind |-> "string", n |-> 0, chars |-> t] : t \in CreditTexts}

\* Number(text) for a text of blanks, signs, digits and other characters
\* (no fraction, exponent, hexadecimal or "Infinity"): the empty and the
\* blank text are 0, a signed decimal integer is its value, the rest NaN
StringToNumber(chars) ==
    LET t == trim(chars)
        signed == t # <<>> /\ Head(t) \in {"+", "-"}
        u == IF signed THEN Tail(t) ELSE t
    IN
    IF t = <<>> THEN [kind |-> "number", num |-> 0, den |-> 1]
    ELSE IF u # <<>> /\ TakeDigits(u) = u
    THEN [kind |-> "number",
          num |-> IF Head(t) = "-" THEN 0 - DigitsValue(u) ELSE DigitsValue(u),
          den |-> 1]
    ELSE NaN

\* Number(rawCredits), line 518: false is 0 and true is 1
ToNumber(sent) ==
    IF sent.kind = "string" THEN StringToNumber(sent.chars)
    ELSE [kind |-> "number", num |-> sent.n, den |-> 1]

\* checkCredits, lines 502-555: the code it returns
checkCredits(sent) ==
    LET creditsNumber == ToNumber(sent) IN
    IF sent.kind = "none" THEN "no_limit_configured"
    ELSE IF creditsNumber = NaN THEN "invalid_credits_value"
    ELSE IF creditsNumber.num > 0 THEN "has_credits"
    ELSE "no_credits"

\* the object checkCredits returns: ok, code and, where the code sets it,
\* remaining
CreditCheck(sent) ==
    LET code == checkCredits(sent) IN
    [ok |-> code # "no_credits", code |-> code,
     remaining |-> CASE code = "has_credits" -> ToNumber(sent).num
                     [] code = "no_credits" -> 0
                     [] OTHER -> Null]

\* checkCredits is called on a request
CallCheckCredits ==
    /\ Free
    /\ \E sent \in CreditsSent :
        call' = [fn |-> "checkCredits", pc |-> "done", input |-> sent,
                 out |-> CreditCheck(sent)]
    /\ UNCHANGED gateVars

\* the words of hardRules (lines 320-369), in the order of the rules
HardRules ==
    <<[code |-> "minor_sexual_content",
       words |-> {<<"child", "sexual">>, <<"underage", "sex">>,
                  <<"teen", "sex">>, <<"teen", "porn">>,
                  <<"14", "year", "old">>, <<"15", "year", "old">>,
                  <<"16", "year", "old">>, <<"minor", "nude">>,
                  <<"minor", "pornography">>}],
      [code |-> "exploitative_content",
       words |-> {<<"csam">>, <<"child", "abuse", "material">>,
                  <<"non-consensual", "intimate">>,
                  <<"hidden", "camera", "in", "shower">>,
                  <<"voyeur", "porn">>}],
      [code |-> "sexual_violence",
       words |-> {<<"rape">>, <<"sexual", "assault">>, <<"forced", "sex">>,
                  <<"non-consensual", "sex">>}],
      [code |-> "bestiality",
       words |-> {<<"sex", "with", "animal">>, <<"bestiality">>,
                  <<"zoophilia">>}],
      [code |-> "revenge_porn",
       words |-> {<<"revenge", "porn">>, <<"leak", "my", "ex", "nudes">>,
                  <<"post", "my", "ex", "nude">>}]>>

\* runContentFilter, lines 313-389: "ok", or the code of the first rule hit
runContentFilter(prompt) ==
    IF prompt = <<>> THEN "ok"
    ELSE LET lower == LowerText(prompt)
             hits == {i \in DOMAIN HardRules :
                         \E w \in HardRules[i].words : Includes(lower, w)}
         IN
         IF hits # {}
         THEN HardRules[CHOOSE i \in hits : \A j \in hits : i <= j].code
         ELSE IF looksObviouslyBad(prompt) THEN "unsafe_keyword"
         ELSE "ok"

\* the texts a remix request is explored with
BasePrompts == {<<>>, <<"red">>, <<"Child">>, <<"revenge">>}
RemixPrompts == {<<>>, <<"blue">>, <<"abuse">>, <<"porn">>, <<"rape">>}

RemixResp(c, status, error, code) ==
    [c EXCEPT !.pc = "done", !.status = status, !.error = error, !.code = code]

\* the checks of a unified-engine handler, in the order of its code
EngineChecks == <<"checkBan", "runContentFilter", "checkCredits">>

\* the handler has called the first n checks
Ran(c, n) == [c EXCEPT !.ran = SubSeq(EngineChecks, 1, n)]

\* RemixFirstStretch without the test of the credit check's answer
RemixFirstStretchNoCreditTest(c) ==
    IF PlanOf(c.plan) \notin allowedPlans
    THEN RemixResp(c, 403, "plan_not_allowed", "")
    ELSE IF c.ban # "not_banned"
    THEN RemixResp(Ran(c, 1), 403, "banned", c.ban)
    ELSE IF c.remixPrompt = <<>>
    THEN RemixResp(Ran(c, 1), 400, "Missing remixPrompt.", "")
    ELSE IF c.safety # "ok"
    THEN RemixResp(Ran(c, 2), 400, "unsafe_content", c.safety)
    ELSE [Ran(c, 3) EXCEPT !.pc = "first", !.genCalls = @ + 1]

\* the handler from its first statement to the image call (lines 867-991)
RemixFirstStretch(c) ==
    IF PlanOf(c.plan) \notin allowedPlans
    THEN RemixResp(c, 403, "plan_not_allowed", "")
    ELSE IF c.ban # "not_banned"
    THEN RemixResp(Ran(c, 1), 403, "banned", c.ban)
    ELSE IF c.remixPrompt = <<>>
    THEN RemixResp(Ran(c, 1), 400, "Missing remixPrompt.", "")
    ELSE IF c.safety # "ok"
    THEN RemixResp(Ran(c, 2), 400, "unsafe_content", c.safety)
    ELSE IF c.credits = "no_credits"
    THEN RemixResp(Ran(c, 3), 402, "no_credits", c.credits)
    ELSE [Ran(c, 3) EXCEPT !.pc = "first", !.genCalls = @ + 1]

\* a remix request arrives
CallRemix ==
    /\ Free
    /\ \E sent \in PlansSent, userId \in UserIds, clientIp \in Ips,
          lists \in BanLists, basePrompt \in BasePrompts,
          remixPrompt \in RemixPrompts, credits \in CreditsSent :
        call' = RemixFirstStretch(
                    [fn |-> "remix", pc |-> "start", plan |-> sent,
                     ban |-> checkBan(userId, clientIp, lists),
                     remixPrompt |-> remixPrompt,
                     safety |-> runContentFilter(basePrompt \o remixPrompt),
                     credits |-> checkCredits(credits),
                     ran |-> <<>>,         \* the checks called so far
                     modCalls |-> 0,       \* moderation calls issued
                     genCalls |-> 0,       \* image calls issued
                     status |-> 0, error |-> "", code |-> ""])
    /\ UNCHANGED gateVars

\* the other handlers of the unified engine: /lmx1/generate (lines
\* 674-865), /lmx1/upscale (1066-1253), /lmx1/remove-background (1255-1445)
EngineEndpoints == {"generate", "upscale", "remove-background"}

\* the instruction used when the request sends none (lines 1101-1103 and
\* 1290-1292); /lmx1/generate filters the prompt alone
DefaultInstruction(endpoint) ==
    CASE endpoint = "generate" -> <<>>
      [] endpoint = "upscale" ->
             <<"Recreate", "this", "frame", "as", "a", "sharper,", "more",
               "detailed,", "high-resolution", "version", "while",
               "preserving", "composition", "and", "subject.">>
      [] endpoint = "remove-background" ->
             <<"Remove", "the", "original", "background", "and", "place",
               "the", "main", "subject", "on", "a", "clean,", "simple",
               "background", "suitable", "for", "product", "or", "profile",
               "use.">>

\* the answer to a request without its required text
EngineMissingError(endpoint) ==
    CASE endpoint = "generate" -> "Missing prompt."
      [] endpoint = "upscale" -> "Missing basePrompt for upscale."
      [] endpoint = "remove-background" ->
             "Missing basePrompt for background removal."

\* a handler of EngineEndpoints from its first statement to the image call;
\* a check that is not reached is not called and leaves no verdict
EngineFirstStretch(c, userId, clientIp, lists, instruction, credits) ==
    LET banned == [Ran(c, 1) EXCEPT !.ban = checkBan(userId, clientIp, lists)]
        combined == c.text \o (IF instruction # <<>> THEN instruction
                               ELSE DefaultInstruction(c.endpoint))
        filtered == [Ran(banned, 2) EXCEPT !.safety = runContentFilter(combined)]
        counted == [Ran(filtered, 3) EXCEPT !.credits = checkCredits(credits)]
    IN
    IF banned.ban # "not_banned"
    THEN RemixResp(banned, 403, "banned", banned.ban)
    ELSE IF c.text = <<>>
    THEN RemixResp(banned, 400, EngineMissingError(c.endpoint), "")
    ELSE IF filtered.safety # "ok"
    THEN RemixResp(filtered, 400, "unsafe_content", filtered.safety)
    ELSE IF counted.credits = "no_credits"
    THEN RemixResp(counted, 402, "no_credits", counted.credits)
    ELSE [counted EXCEPT !.pc = "first", !.genCalls = @ + 1]

\* a request arrives at /lmx1/generate, /lmx1/upscale or
\* /lmx1/remove-background
CallEngine ==
    /\ Free
    /\ \E endpoint \in EngineEndpoints, userId \in UserIds, clientIp \in Ips,
          lists \in BanLists, text \in BasePrompts,
          instruction \in RemixPrompts, credits \in CreditsSent :
        /\ endpoint = "generate" => instruction = <<>>
        /\ call' = EngineFirstStretch(
                       [fn |-> "engine", endpoint |-> endpoint, pc |-> "start",
                        text |-> text,
                        ban |-> "", safety |-> "", credits |-> "",
                        ran |-> <<>>, modCalls |-> 0, genCalls |-> 0,
                        status |-> 0, error |-> "", code |-> ""],
                       userId, clientIp, lists, instruction, credits)
    /\ UNCHANGED gateVars

\* the image call of a unified-engine handler answers (remix: lines
\* 986-1063)
RemixGenerationAnswers ==
    /\ call.fn \in {"remix", "engine"}
    /\ call.pc = "first"
    /\ \/ call' = RemixResp(call, 200, "", "")
       \/ call' = RemixResp(call, 500, "no_image_data", "")
       \/ \E status \in ThrownStatuses :
              call' = RemixResp(call, status, "server_error", "")
    /\ UNCHANGED gateVars

HelperNext ==
    \/ CallModeratePrompt
    \/ CallCheckCredits
    \/ CallRemix
    \/ CallEngine
    \/ RemixGenerationAnswers
    \/ CallMapRatioToSize
    \/ CallRatioToSize
    \/ CallCompose
    \/ Return
    \/ CallGenerate
    \/ GenerationAnswers
    \/ DeadlineFires

HelperSpec == HelperInit /\ [][HelperNext]_vars

\* ---------------------------------------------------------------- claims
Returned(rq) == rq.creditResult # "none"    \* consumeCredit has returned

\* C1: the image-generation call is issued for a request only if its IP was
\* not in the ban registry, the lexical filter did not match, the looked-up
\* account was not Banned, the moderation decision was safe and, with an
\* account, consumeCredit returned ok.
C1_GenerationOnlyAfterGate ==
    \A r \in Slots : req[r].genCalls > 0 =>
        /\ ~req[r].ipListed
        /\ ~req[r].lexBad
        /\ ~(req[r].account # NoRow /\ req[r].account.plan_label = "Banned")
        /\ req[r].decision = "safe"
        /\ (req[r].account # NoRow => req[r].creditResult = "ok")

\* C2: a block_minor decision is answered by 403 predator, the IP (if the
\* request has one) is in the ban registry and, with an account present and
\* no store call of the request failing, the persisted plan is Banned and
\* exactly one credit was consumed, whatever the account's state.
C2_BlockMinorBansAndCharges ==
    \A r \in Slots : req[r].pc = "done" /\ req[r].decision = "block_minor" =>
        /\ req[r].resp = BannedResp("predator")
        /\ (req[r].ip # "" => req[r].ip \in BANNED_IPS)
        /\ (req[r].account # NoRow /\ req[r].storeErrors = 0 =>
               /\ store[req[r].account.user_id].plan_label = "Banned"
               /\ req[r].creditWrites = 1)

\* C3: no step raises the persisted daily_used of a row whose persisted
\* plan_label is Banned when the write is made.
C3_NoConsumeWhileBanned ==
    [][\A u \in DOMAIN store :
          (store[u] # NoRow /\ store[u].plan_label = "Banned") =>
              store'[u].daily_used <= store[u].daily_used]_vars

\* C4: when the moderation call throws or answers without a results entry,
\* the decision is block_policy.
C4_ModerationFailsClosed ==
    \A r \in Slots : req[r].modFault \in {"throws", "no_results"} =>
        req[r].decision = "block_policy"

C7_BannedAlwaysAccountBanned ==
    \A r \in Slots : req[r].pc = "done" /\ req[r].wasBanned =>
        req[r].resp = BannedResp("account_banned")

\* C7 (amended): a request whose account lookup returns a Banned account is
\* answered by 403 account_banned at the lookup stage, whatever the
\* account's quota state, with no moderation, credit or image call.
C7_BannedLookupIsRejected ==
    \A r \in Slots :
        (req[r].account # NoRow /\ req[r].account.plan_label = "Banned") =>
            /\ req[r].pc \in {"reset", "done"}
            /\ (req[r].pc = "done" =>
                   req[r].resp = BannedResp("account_banned"))
            /\ req[r].modCalls = 0
            /\ req[r].consumeCalls = 0
            /\ req[r].genCalls = 0

\* a Banned account with credits left under its cap is rejected
C7_Witness ==
    \E r \in Slots :
        /\ req[r].pc = "done"
        /\ req[r].account # NoRow
        /\ req[r].account.plan_label = "Banned"
        /\ req[r].account.daily_used < req[r].account.daily_cap
        /\ req[r].resp.reason = "account_banned"

\* C8: a block_nsfw or block_policy decision is answered by 200 with
\* blocked: true and the decision as reason; the request calls neither
\* consumeCredit nor the image generator and writes no daily_used.
C8_SoftBlockIsFree ==
    \A r \in Slots : req[r].decision \in {"block_nsfw", "block_policy"} =>
        /\ req[r].pc = "done"
        /\ req[r].resp.status = 200
        /\ req[r].resp.blocked
        /\ req[r].resp.reason = req[r].decision
        /\ req[r].consumeCalls = 0
        /\ req[r].creditWrites = 0
        /\ req[r].genCalls = 0

C8_Witness ==
    \E r, q \in Slots :
        /\ req[r].decision = "block_policy" /\ req[r].account # NoRow
        /\ req[r].pc = "done"
        /\ req[q].decision = "block_nsfw" /\ req[q].pc = "done"

C10_ListedIpIsRejectedFirst ==
    \A r \in Slots : req[r].ipListed =>
        /\ req[r].pc = "done"
        /\ req[r].resp = BannedResp("ip_banned")
        /\ req[r].storeCalls = 0
        /\ req[r].modCalls = 0
        /\ req[r].genCalls = 0

\* C11: a request whose account lookup returned a row with plan Banned is
\* answered by 403, banned: true, reason account_banned, its ip is in
\* BANNED_IPS from then on, and the request made no moderation call, no
\* consumeCredit call and no image call.
C11_BannedAccountBansIp ==
    \A r \in Slots :
        (req[r].pc = "done" /\ req[r].account # NoRow
             /\ req[r].account.plan_label = "Banned") =>
            /\ req[r].resp.status = 403
            /\ req[r].resp.banned
            /\ req[r].resp.reason = "account_banned"
            /\ req[r].ip \in BANNED_IPS
            /\ req[r].modCalls + req[r].consumeCalls + req[r].genCalls = 0

\* a Banned user's first request from an address not yet in the set
C11_Witness ==
    \E r \in Slots :
        /\ req[r].pc = "done"
        /\ req[r].wasBanned /\ ~req[r].ipListed /\ req[r].ip # ""
        /\ req[r].account.plan_label = "Banned"
        /\ req[r].ip \in BANNED_IPS
        /\ req[r].resp.reason = "account_banned"

\* the step is request r's banned-account branch (lines 514-521)
BannedBranchStep(r) ==
    /\ req[r].pc \in {"select", "reset"}
    /\ req'[r].pc = "done"
    /\ req'[r].resp = BannedResp("account_banned")

\* the step is a stretch of request r's block_minor branch (lines 525-543)
MinorBranchStep(r) ==
    /\ req[r].pc \in {"moderate", "ban", "consume"}
    /\ req'[r].branch = "minor"

\* the step is the answer to the credit update of request r's safe branch
CreditStep(r) ==
    /\ req[r].pc = "consume"
    /\ req[r].branch = "safe"

\* C12 (as claimed): a step changes BANNED_IPS or the account table only in
\* a banned-account branch, in a block_minor branch or as the credit
\* increment of the safe branch; the account lookup changes neither.
C12_OnlyThreeMutations ==
    [][(store' # store \/ BANNED_IPS' # BANNED_IPS) =>
          \E r \in Slots :
              BannedBranchStep(r) \/ MinorBranchStep(r) \/ CreditStep(r)]_vars

\* C12 (amended): BANNED_IPS changes only by the add of a banned-account
\* branch or of a block_minor branch; the account table changes only by the
\* lookup's insert of a Guest row for an unknown user, by the lookup's daily
\* reset (daily_used 0, last_reset_date today), by the block_minor branch
\* (ban, credit) and by the credit increment of the safe branch.  The IP
\* check, the lexical filter, the moderation with a safe or soft-block
\* result and the image call change neither.
C12_MutationsOfTheGate ==
    [][/\ BANNED_IPS' # BANNED_IPS =>
              \E r \in Slots :
                  /\ BannedBranchStep(r) \/ MinorBranchStep(r)
                  /\ BANNED_IPS' = BANNED_IPS \cup {req[r].ip}
       /\ store' # store =>
              \E r \in Slots :
                  LET u == req[r].userId IN
                  \/ MinorBranchStep(r)
                  \/ CreditStep(r)
                  \/ /\ req[r].pc = "insert"
                     /\ store[u] = NoRow
                     /\ store' = [store EXCEPT ![u] =
                            Row(u, "Guest", 0, 0, 0, req[r].today)]
                  \/ /\ req[r].pc = "reset"
                     /\ store' = [store EXCEPT
                            ![u].daily_used = 0,
                            ![u].last_reset_date = req[r].today]]_vars

\* the lookup created the row of an unknown user, and the request went on
\* to the moderation
C12_Witness ==
    \E r \in Slots :
        /\ req[r].pc = "moderate"
        /\ req[r].account.plan_label = "Guest"
        /\ store[req[r].userId] = req[r].account

\* C13: with overlapping requests of one user within one day and no ban,
\* the persisted daily_used stands above the value the day's requests found
\* by exactly the number of consumeCredit updates the store applied.
C13_NoLostUpdate ==
    LET row == store["u1"] IN
    (width = 2 /\ today = 1 /\ row # NoRow /\ row.plan_label # "Banned") =>
        row.daily_used = Max(row.daily_cap - 1, 0)
                             + req[1].creditWrites + req[2].creditWrites

\* getOrCreateAccount has returned an account to request q, and q has
\* called neither banAccount nor consumeCredit since
LookedUp(q) ==
    /\ req[q].pc \in {"moderate", "done"}
    /\ req[q].account # NoRow
    /\ req[q].branch = ""

\* the step is the answer to the select of request r's getOrCreateAccount
SelectStep(r) == req[r].pc = "select" /\ req'[r].pc # "select"

ResetStep(r) == req[r].pc = "reset" /\ req'[r].pc # "reset"

\* the account getOrCreateAccount returns at the step is reset to the
\* call's today
ReturnsReset(r) ==
    /\ req'[r].account.daily_used = 0
    /\ req'[r].account.last_reset_date = req[r].today

\* after the step the persisted row holds the reset values
PersistsReset(r) ==
    /\ store'[req[r].userId].daily_used = 0
    /\ store'[req[r].userId].last_reset_date = req[r].today

\* the select of the step finds a row last reset on another day
FindsStaleRow(r) ==
    /\ SelectStep(r)
    /\ req'[r].storeErrors = req[r].storeErrors
    /\ store[req[r].userId] # NoRow
    /\ store[req[r].userId].last_reset_date # today

LookupErrorStep(r) ==
    /\ req[r].pc \in {"select", "insert"}
    /\ req'[r].storeErrors > req[r].storeErrors

\* C16: without a user identity, without a store client, or when the
\* lookup's select or insert is answered by an error, the handler holds no
\* account; a request without an account whose moderation decision is safe
\* goes to the image call without a consumeCredit call, is not answered by
\* a quota or ban rejection, and reports creditsRemaining null.
C16_NoAccountSkipsQuota ==
    [][\A r \in Slots :
          /\ LookupErrorStep(r) =>
                 req'[r].account = NoRow /\ req'[r].pc = "moderate"
          /\ (req'[r].pc # "idle" /\ (~supabase \/ req'[r].userId = "")) =>
                 req'[r].account = NoRow /\ req'[r].storeCalls = 0
          /\ (req'[r].account = NoRow /\ req'[r].decision = "safe") =>
                 /\ req'[r].pc \in {"generate", "done"}
                 /\ req'[r].genCalls = 1
                 /\ req'[r].consumeCalls = 0
                 /\ req'[r].creditsRemaining = Null
                 /\ (req'[r].pc = "done" =>
                        \/ req'[r].resp = ImageResp(Null)
                        \/ req'[r].resp.error
                               \in {"no_image_data", "server_error"})]_vars

\* a user's lookup failed and the user's request got its image
C16_Witness ==
    \E r \in Slots :
        /\ supabase /\ req[r].userId # ""
        /\ req[r].storeErrors > 0
        /\ req[r].account = NoRow
        /\ req[r].pc = "done"
        /\ req[r].resp = ImageResp(Null)

\* the step is an error answer to the credit update of request r
CreditErrorStep(r) ==
    /\ req[r].pc = "consume"
    /\ req'[r].storeErrors > req[r].storeErrors

\* C17: when the update of a consumeCredit call whose local checks passed
\* is answered by an error, consumeCredit returns ok, the account table is
\* left as it was, and the safe branch goes on to the image call (the
\* block_minor branch, which ignores the result, answers 403 predator).
C17_UpdateErrorFailsOpen ==
    [][\A r \in Slots : CreditErrorStep(r) =>
          /\ req'[r].creditResult = "ok"
          /\ req'[r].creditWrites = req[r].creditWrites
          /\ store' = store
          /\ (req[r].branch = "safe" =>
                 /\ req'[r].pc = "generate"
                 /\ req'[r].genCalls = 1)
          /\ (req[r].branch = "minor" =>
                 req'[r].resp = BannedResp("predator"))]_vars

\* under a cap, the credit update failed (the select had not), the row is
\* as the request read it, and the request got its image
C17_Witness ==
    \E r \in Slots :
        /\ req[r].branch = "safe"
        /\ req[r].account # NoRow /\ req[r].account.daily_cap > 0
        /\ req[r].storeCalls = 2 /\ req[r].storeErrors = 1
        /\ req[r].creditResult = "ok" /\ req[r].creditWrites = 0
        /\ store[req[r].userId] = req[r].account
        /\ req[r].pc = "done"
        /\ req[r].resp.status = 200 /\ ~req[r].resp.blocked

\* after the step the row of request r's account stands one above the
\* daily_used the check was made on, nothing else of the table changed, and
\* the safe branch holds creditsRemaining as computed on the row so updated
ChargedByOne(r) ==
    LET u == req[r].account.user_id
        used == req[r].account.daily_used + 1 IN
    /\ store' = [store EXCEPT ![u].daily_used = used]
    /\ (req[r].branch = "safe" =>
           req'[r].creditsRemaining =
               IF store'[u].daily_cap = 0 THEN Null
               ELSE Max(store'[u].daily_cap - used, 0))

\* the image answer reports the creditsRemaining the handler computed
ReportsCreditsRemaining(r) ==
    (req'[r].pc = "done" /\ req'[r].genCalls = 1
         /\ req'[r].resp.status = 200) =>
        req'[r].resp.creditsRemaining = req'[r].creditsRemaining

C19_ExhaustedQuotaIsRejected ==
    [][\A r \in Slots :
          LET account == req'[r].account IN
          (req'[r].decision = "safe" /\ account.daily_cap > 0
               /\ account.daily_used >= account.daily_cap) =>
              /\ req'[r].pc = "done"
              /\ req'[r].resp.status = 402
              /\ req'[r].resp.error = "quota"
              /\ req'[r].resp.dailyCap = account.daily_cap
              /\ req'[r].resp.dailyUsed = account.daily_used
              /\ req'[r].resp.creditsRemaining = 0
              /\ req'[r].genCalls = 0
              /\ req'[r].creditWrites = 0
              /\ req'[r].consumeCalls = 1
              /\ (req[r].pc = "moderate" =>
                     /\ store' = store
                     /\ req'[r].storeCalls = req[r].storeCalls)]_vars

\* an account above its cap was refused and its row is as it was read
C19_Witness ==
    \E r \in Slots :
        /\ req[r].pc = "done" /\ req[r].decision = "safe"
        /\ req[r].account.daily_cap > 0
        /\ req[r].account.daily_used > req[r].account.daily_cap
        /\ req[r].resp.status = 402
        /\ req[r].resp.dailyUsed = req[r].account.daily_used
        /\ store[req[r].userId] = req[r].account

\* the row is as banAccount leaves a row
IsBannedRow(row) ==
    /\ row.plan_label = "Banned"
    /\ row.daily_cap = 0
    /\ row.daily_used = 0
    /\ row.tokens_balance = 0

\* C20: every banAccount update the store applies leaves the row with plan
\* Banned and daily_cap, daily_used, tokens_balance 0, and leaves a row that
\* was so already as it was; an update answered by an error changes no row;
\* and whatever the update's answer the request goes on as lines 531-542
\* say and is answered by 403 predator.
C20_BanIsIdempotent ==
    [][\A r \in Slots :
          /\ (req[r].pc = "ban" /\ req'[r].pc # "ban") =>
                 LET u == req[r].userId IN
                 /\ (req'[r].storeErrors = req[r].storeErrors
                        /\ store[u] # NoRow) =>
                        /\ IsBannedRow(store'[u])
                        /\ store'[u].user_id = store[u].user_id
                        /\ store'[u].last_reset_date = store[u].last_reset_date
                        /\ (IsBannedRow(store[u]) => store' = store)
                 /\ (req'[r].storeErrors > req[r].storeErrors =>
                        store' = store)
                 /\ req'[r].pc \in {"consume", "done"}
                 /\ (req'[r].pc = "consume") =
                        (ConsumeCheck(req[r].account) = "update")
                 /\ req'[r].ip \in BANNED_IPS' \/ req'[r].ip = ""
          /\ (req'[r].branch = "minor" /\ req'[r].pc = "done") =>
                 req'[r].resp = BannedResp("predator")]_vars

\* a first request was banned and charged; the ban of a second one, which
\* had read the row before, was applied as well and left the row banned
C20_Witness ==
    \E r, q \in Slots :
        /\ r # q
        /\ req[q].pc = "done" /\ req[q].branch = "minor"
        /\ req[q].storeErrors = 0 /\ req[q].creditWrites = 1
        /\ req[r].pc = "consume" /\ req[r].branch = "minor"
        /\ req[r].storeErrors = 0
        /\ IsBannedRow(store["u1"])

\* C21: on an answer with a results entry moderatePrompt gives exactly one
\* decision, by the priority sexual/minors, then sexual, then flagged:
\* block_minor when sexual/minors is set (also with sexual set), block_nsfw
\* when sexual is set without sexual/minors, block_policy when flagged is set
\* with neither, safe when no flag is set.
C21_ModerationPriority ==
    (call.fn = "moderatePrompt" /\ call.input.fault = "none") =>
        LET in == call.input IN
        /\ in.minors => call.out = "block_minor"
        /\ (in.sexual /\ ~in.minors) => call.out = "block_nsfw"
        /\ (in.flagged /\ ~in.sexual /\ ~in.minors) => call.out = "block_policy"
        /\ (~in.flagged /\ ~in.sexual /\ ~in.minors) => call.out = "safe"

\* an answer with sexual/minors and sexual both set
C21_Witness ==
    /\ call.fn = "moderatePrompt"
    /\ call.input.fault = "none"
    /\ call.input.minors /\ call.input.sexual
    /\ call.out = "block_minor"

\* a request without its required text arrives in slot r at the step
MissingTextStep(r) == req'[r] # req[r] /\ req'[r].missingText

\* the step answers r and changes neither BANNED_IPS nor the account
\* table, and r has made no remote call
AnsweredLocally(r) ==
    /\ req'[r].pc = "done"
    /\ req'[r].storeCalls + req'[r].modCalls + req'[r].genCalls = 0
    /\ store' = store
    /\ BANNED_IPS' = BANNED_IPS

\* C22 (as claimed): every request whose required text is missing is
\* answered by 400 without a remote call and without a change of state.
C22_MissingTextIs400 ==
    [][\A r \in Slots : MissingTextStep(r) =>
          /\ req'[r].resp.status = 400
          /\ AnsweredLocally(r)]_vars

\* C22 (amended): every request whose required text is missing is answered
\* without a remote call and without a change of state: by 400 and the
\* endpoint's missing-text error when its ip is not a listed one, by 403
\* ip_banned when it is.
C22_MissingTextIsAnsweredLocally ==
    [][\A r \in Slots : MissingTextStep(r) =>
          /\ AnsweredLocally(r)
          /\ IF IpIsBanned(req'[r].ip, BANNED_IPS)
             THEN req'[r].resp = BannedResp("ip_banned")
             ELSE /\ req'[r].resp.status = 400
                  /\ req'[r].resp.error \in
                         {MissingError(e) : e \in Endpoints}]_vars

\* a user with a row in the store sends a request without text
C22_Witness ==
    \E r \in Slots :
        /\ req[r].missingText /\ ~req[r].ipListed
        /\ req[r].userId # "" /\ supabase /\ store[req[r].userId] # NoRow
        /\ req[r].pc = "done"
        /\ req[r].resp.status = 400

\* C23: a request decided by a ban, a moderation block or a quota failure
\* is answered by that branch's own response, also when store calls of the
\* request failed; the server_error response of the catch is given only
\* after the image call was issued.
C23_PolicyRejectionsAreLocal ==
    \A r \in Slots : req[r].pc = "done" =>
        LET rq == req[r] IN
        /\ (rq.ipListed /\ rq.ip # "") => rq.resp = BannedResp("ip_banned")
        /\ (rq.account # NoRow /\ rq.account.plan_label = "Banned") =>
               rq.resp = BannedResp("account_banned")
        /\ rq.decision = "block_minor" => rq.resp = BannedResp("predator")
        /\ rq.decision \in {"block_nsfw", "block_policy"} =>
               rq.resp = BlockedResp(rq.decision)
        /\ (rq.branch = "safe" /\ rq.creditResult = "banned") =>
               rq.resp = BannedResp("account_banned")
        /\ (rq.branch = "safe" /\ rq.creditResult = "quota") =>
               rq.resp.status = 402 /\ rq.resp.error = "quota"
        /\ rq.resp.error = "server_error" =>
               /\ rq.genCalls = 1
               /\ rq.decision = "safe"
               /\ rq.creditResult \in {"none", "ok"}

\* in a block_minor branch the ban's update and the credit's update both
\* failed, and the answer is 403 predator
C23_Witness ==
    \E r \in Slots :
        /\ req[r].pc = "done" /\ req[r].decision = "block_minor"
        /\ req[r].account # NoRow
        /\ req[r].storeCalls = 3 /\ req[r].storeErrors = 2
        /\ req[r].resp = BannedResp("predator")

\* C24: every image call in flight has the deadline's timer running, and
\* the step at which the deadline fires on a call in flight answers the
\* request with an error and issues no further image call.
C24_GenerationIsBoundedByDeadline ==
    [][/\ (call'.fn = "generate" /\ call'.pc \in {"first", "retry"}) =>
              call'.timer = "armed"
       /\ (call.fn = "generate" /\ call.pc = "first"
              /\ call'.fn = "generate" /\ call'.fired) =>
              /\ call'.pc = "done"
              /\ call'.status >= 500
              /\ call'.genCalls = call.genCalls]_vars

\* C25: a remix request's image call is issued only with a plan of
\* allowedPlans, after the ban check, the text filter and the credit check
\* passed and after a moderation call; a plan outside allowedPlans is
\* answered by 403 plan_not_allowed.
C25_RemixAppliesFullGate ==
    call.fn = "remix" =>
        /\ call.genCalls > 0 =>
               /\ PlanOf(call.plan) \in allowedPlans
               /\ call.ban = "not_banned"
               /\ call.safety = "ok"
               /\ call.credits # "no_credits"
               /\ call.modCalls > 0
        /\ PlanOf(call.plan) \notin allowedPlans =>
               call.status = 403 /\ call.error = "plan_not_allowed"

PositiveRatios == {Str(RatioOf(w, h)) : w \in 1..MaxSide, h \in 1..MaxSide}

\* the W and the H of a ratio of PositiveRatios
SidesOf(ratio) ==
    CHOOSE p \in (1..MaxSide) \X (1..MaxSide) : ratio = Str(RatioOf(p[1], p[2]))

Abs(n) == IF n < 0 THEN 0 - n ELSE n

\* C27 as claimed: for a ratio of two positive integers the larger side of
\* the size ratioToSize returns is the base 1024, and no side exceeds 2048.
C27_LargerSideIsBase ==
    (call.fn = "ratioToSize" /\ call.input \in PositiveRatios) =>
        \E short \in 1..BASE :
            call.out \in {SizeText(BASE, short), SizeText(short, BASE)}

\* C27 amended: for a ratio of two positive integers the shorter side of the
\* size is the base 1024 and lies where the ratio has its shorter side; the
\* longer side is the nearest integer to 1024 * longer / shorter, or 2048
\* when that is 2048 or more.
C27_ShorterSideIsBase ==
    (call.fn = "ratioToSize" /\ call.input \in PositiveRatios) =>
        LET W == SidesOf(call.input)[1]
            H == SidesOf(call.input)[2]
            long == IF W >= H THEN W ELSE H
            short == IF W >= H THEN H ELSE W
        IN \E L \in BASE..MaxDimension :
              /\ call.out = IF W >= H THEN SizeText(L, BASE) ELSE SizeText(BASE, L)
              /\ L < MaxDimension => 2 * Abs(L * short - BASE * long) <= short
              /\ L = MaxDimension => 2 * BASE * long + short >= 2 * MaxDimension * short

\* C27 witness: "16:9" gave 1820x1024 and "1:3" gave 1024x2048.
C27_Witness ==
    /\ call.fn = "ratioToSize"
    /\ \/ call.input = Str(RatioOf(16, 9)) /\ call.out = "1820x1024"
       \/ call.input = Str(RatioOf(1, 3)) /\ call.out = "1024x2048"

\* the ratios that are no string, lack two numeric parts, or are a "W:H"
\* with W or H zero or negative
BadRatios ==
    NotAString
    \cup {Str(t) : t \in {<<>>, <<" ">>, <<"x">>, <<"1", "6">>, <<"1", "6", ":">>,
                          <<":", "9">>, <<"x", ":", "y">>}}
    \cup {Str(RatioOf(w, h)) : w \in (0 - MaxSide)..MaxSide, h \in (0 - MaxSide)..0}
    \cup {Str(RatioOf(w, h)) : w \in (0 - MaxSide)..0, h \in (0 - MaxSide)..MaxSide}

\* C28: ratioToSize returns the square default 1024x1024 for every ratio
\* that is not a string, has no two numeric parts, or has a W or an H that
\* is zero or negative.
C28_BadRatioGivesSquare ==
    (call.fn = "ratioToSize" /\ call.input \in BadRatios) => call.out = "1024x1024"

\* the places of a clause in a composed prompt
Places(prompt, clause) == {i \in DOMAIN prompt : prompt[i].clause = clause}

\* the part with this text is in the composed prompt
Appears(prompt, text) == \E i \in DOMAIN prompt : prompt[i].text = text

\* C29: in every endpoint's composed prompt the style clause, when a style
\* was sent, is the first part, the framing clause comes before the ratio
\* hint and the ratio hint before the texts of the request, and the style,
\* the ratio and every text the request supplied appear.
C29_StyleFirstAllPartsAppear ==
    call.fn = "compose" =>
        /\ call.style # "" => call.out[1].clause = "Style:"
        /\ \A f \in Places(call.out, "frame"), h \in Places(call.out, "Ratio hint:") : f < h
        /\ \A h \in Places(call.out, "Ratio hint:"), i \in DOMAIN call.out :
               call.out[i].text \in {call.original, call.text} => h < i
        /\ call.style # "" => Appears(call.out, resolvedStyle(call.style))
                               \/ Appears(call.out, call.style)
        /\ Appears(call.out, call.ratio)
        /\ call.original # "" => Appears(call.out, call.original)
        /\ call.text # "" => Appears(call.out, call.text)

\* C30: while the persisted plan of an account is Banned, no step of a
\* request carrying its userId issues the image call or applies a credit
\* update.
C30_BannedAccountIsShutOut ==
    [][\A r \in Slots :
          LET u == req'[r].userId IN
          (u # "" /\ req[r].userId = u /\ IsBannedRow(store[u])) =>
              /\ req'[r].genCalls <= req[r].genCalls
              /\ req'[r].creditWrites <= req[r].creditWrites]_vars

\* the overlapping requests that passed the quota stage and issued the
\* image call
PassedQuota == {r \in Slots : req[r].consumeCalls > 0 /\ req[r].genCalls > 0}

\* C31: for an account with daily_cap N > 0, at most N of the overlapping
\* requests of one day pass the quota stage and reach the image call.
C31_AtMostCapRequestsPass ==
    LET row == store["u1"] IN
    (width = 2 /\ today = 1 /\ row # NoRow /\ row.daily_cap > 0) =>
        Cardinality(PassedQuota) <= row.daily_cap

\* request r's reset update is answered in this step
ResetAnswered(r) == req[r].pc = "reset" /\ req'[r].pc # "reset"

\* a request whose getOrCreateAccount ran on the given day has had a credit
\* update applied
CreditConsumedOn(day) ==
    \E q \in Slots : req[q].creditWrites > 0 /\ req[q].today = day

\* C32: a reset of getOrCreateAccount never lowers the persisted daily_used
\* once a credit was consumed by a request of the same day: the day's count
\* is reset at most once, before the first credit.
C32_ResetNeverErasesCredit ==
    [][\A r \in Slots :
          (ResetAnswered(r) /\ CreditConsumedOn(req[r].today)) =>
              store'["u1"].daily_used >= store["u1"].daily_used]_vars

\* a handler holds a snapshot of the account that shows a cap: of the rows
\* overlapping requests start from, the one with daily_cap > 0, which has
\* daily_used <= daily_cap
SnapshotShowsCap ==
    \E r \in Slots : req[r].account # NoRow /\ req[r].account.daily_cap > 0

\* C33: the persisted daily_used of an account that started with
\* daily_cap > 0 and daily_used <= daily_cap never exceeds its persisted
\* daily_cap.
C33_UsedNeverExceedsCap ==
    LET row == store["u1"] IN
    (width = 2 /\ row # NoRow /\ SnapshotShowsCap) =>
        row.daily_used <= row.daily_cap

\* C34: consumeCredit never answers banned in the gate, so no request that
\* called it is rejected with account_banned: that rejection comes from the
\* test on the looked-up account only, and a ban written after the lookup
\* goes unseen.
C34_StageFiveNeverSeesBan ==
    \A r \in Slots :
        /\ req[r].creditResult # "banned"
        /\ req[r].resp.reason = "account_banned" => req[r].consumeCalls = 0

\* C34 witness: the row is Banned, and a request of the safe branch whose
\* lookup found it not Banned had its credit update applied after the ban
\* and went on to the image call.
C34_Witness ==
    /\ width = 2
    /\ store["u1"].plan_label = "Banned"
    /\ store["u1"].daily_used > 0
    /\ \E r \in Slots :
          /\ req[r].branch = "safe" /\ req[r].creditResult = "ok"
          /\ req[r].creditWrites > 0 /\ req[r].genCalls > 0
          /\ \A q \in Slots \ {r} : req[q].creditWrites = 0

\* request r's image call is answered in this step
GenerationAnswered(r) == req[r].pc = "generate" /\ req'[r].pc = "done"

\* C35: a request with an account has called consumeCredit before its image
\* call; the step that answers the image call writes nothing to the store,
\* and when the call failed or returned no image the response is an error
\* and the request's applied credit update stays counted.
C35_CreditIsNotGivenBack ==
    [][\A r \in Slots :
          GenerationAnswered(r) =>
              /\ req[r].account # NoRow => req[r].consumeCalls = 1
              /\ store' = store
              /\ req'[r].creditWrites = req[r].creditWrites
              /\ \/ req'[r].resp = ImageResp(req[r].creditsRemaining)
                 \/ /\ req'[r].resp.status >= 400
                    /\ req'[r].resp.error \in {"no_image_data", "server_error"}]_vars

\* C35 witness: the image call failed, the request was answered by an
\* error, and the credit it consumed is still in the persisted row.
C35_Witness ==
    \E r \in Slots :
        /\ width = 1
        /\ req[r].pc = "done" /\ req[r].genCalls = 1
        /\ req[r].resp.error \in {"no_image_data", "server_error"}
        /\ req[r].creditWrites = 1
        /\ store["u1"].plan_label = "Free"
        /\ store["u1"].daily_used = req[r].account.daily_used + 1

\* C36: a request to a retrying handler makes at most two image calls, the
\* second only after the first rejected; when both rejected it is answered
\* 500, and when the first did not reject there is one call only.
C36_AtMostOneRetry ==
    (call.fn = "generate" /\ Retries(call.handler)) =>
        /\ call.genCalls <= 2
        /\ call.genCalls = 2 => call.failedCalls >= 1
        /\ call.failedCalls = 2 => call.pc = "done" /\ call.status = 500
        /\ (call.pc = "done" /\ call.genCalls > 0 /\ call.failedCalls = 0) =>
               call.genCalls = 1

\* C36 witness: both image calls of a retrying handler rejected and the
\* request was answered 500.
C36_Witness ==
    /\ call.fn = "generate"
    /\ Retries(call.handler)
    /\ call.genCalls = 2
    /\ call.failedCalls = 2
    /\ call.status = 500

\* C37: a handler of the unified engine calls checkBan, runContentFilter
\* and checkCredits in that order and issues the image call only after all
\* three passed; a ban is answered 403, a filter hit 400 and a credit
\* refusal 402, each without calling the checks that come after it.
C37_EngineChecksInOrder ==
    call.fn \in {"remix", "engine"} =>
        LET n == Len(call.ran) IN
        /\ call.ran = SubSeq(EngineChecks, 1, n)
        /\ call.genCalls > 0 =>
               /\ n = 3
               /\ call.ban = "not_banned"
               /\ call.safety = "ok"
               /\ call.credits # "no_credits"
        /\ (n >= 1 /\ call.ban # "not_banned") =>
               n = 1 /\ call.status = 403 /\ call.error = "banned"
        /\ (n >= 2 /\ call.safety # "ok") =>
               n = 2 /\ call.status = 400 /\ call.error = "unsafe_content"
        /\ (n = 3 /\ call.credits = "no_credits") =>
               call.status = 402 /\ call.error = "no_credits" /\ call.genCalls = 0

\* C37 witness: an upscale request was refused by the text filter with 400
\* and checkCredits was not called.
C37_Witness ==
    /\ call.fn = "engine"
    /\ call.endpoint = "upscale"
    /\ call.ran = <<"checkBan", "runContentFilter">>
    /\ call.status = 400
    /\ call.error = "unsafe_content"
    /\ call.credits = ""

\* the credits value is a number: a JSON number, or a string that holds a
\* decimal integer
IsNumberSent(sent) ==
    \/ sent.kind = "number"
    \/ /\ sent.kind = "string"
       /\ \E n \in -1..MaxCredits : trim(sent.chars) = Signed(n)

\* C38: checkCredits refuses (ok false, code no_credits, remaining 0)
\* exactly when the credits value sent is a number that is 0 or less; with
\* no value or with a value that is not a number it allows the request.
C38_RefusesOnlyNumbersUpToZero ==
    call.fn = "checkCredits" =>
        /\ call.out.ok = ~(IsNumberSent(call.input) /\ ToNumber(call.input).num <= 0)
        /\ ~call.out.ok => call.out.code = "no_credits" /\ call.out.remaining = 0

=============================================================================
